---------------------------- MODULE Spec2Model ----------------------------
(***************************************************************************)
(* Model of excel_merge_match.py: the merged-cell value resolver, the      *)
(* keyed mapping builder (build_source_mapping) and the mapping applicator *)
(* (apply_mapping_to_target), run one after the other as MainWindow._on_run*)
(* runs them.                                                              *)
(*                                                                         *)
(* Text is a sequence of one-character strings, so that strip, split and   *)
(* join are computed and not assumed.  A cell value is a record            *)
(* [t, n, s]: t is the Python type of the value, n its number (numbers are *)
(* kept in halves, so that 2.5 is n = 5 and 2 is n = 4; a bool is 1 or 0), *)
(* s its text (str) or its ISO text (date).                                *)
(***************************************************************************)
EXTENDS Integers, Sequences, FiniteSets, TLC

VARIABLES
    pc,        \* position of the run: "start", "build", "apply", "done", "error"
    srcFile,   \* the source workbook on disk: [name, ws]
    tgtFile,   \* the target workbook on disk: [name, ws]
    srcCfg,    \* SourceConfig
    tgtCfg,    \* TargetConfig
    mapping,   \* build_source_mapping's dict: key text -> value
    ws,        \* the target worksheet in memory (apply_mapping_to_target's ws)
    r,         \* the row the running loop is at
    keyCols,   \* key_col_indexes of the running operation
    valueCol,  \* value_col_index
    writeCol,  \* write_col_index
    matched,   \* apply_mapping_to_target's matched
    total,     \* apply_mapping_to_target's total
    outFile,   \* the output workbook on disk: [saved, ws]
    err        \* the exception that ended the run: [kind, names]

vars == <<pc, srcFile, tgtFile, srcCfg, tgtCfg, mapping, ws, r, keyCols,
          valueCol, writeCol, matched, total, outFile, err>>

-----------------------------------------------------------------------------
(* Values *)

None == [t |-> "none", n |-> 0, s |-> <<>>]
BoolV(b) == [t |-> "bool", n |-> IF b THEN 1 ELSE 0, s |-> <<>>]
IntV(k) == [t |-> "int", n |-> 2 * k, s |-> <<>>]
FloatV(h) == [t |-> "float", n |-> h, s |-> <<>>]
StrV(x) == [t |-> "str", n |-> 0, s |-> x]
DateV(iso) == [t |-> "date", n |-> 0, s |-> iso]

IsNumber(v) == v.t \in {"int", "float"}

-----------------------------------------------------------------------------
(* Text *)

Whitespace == {" "}
DigitChars == <<"0", "1", "2", "3", "4", "5", "6", "7", "8", "9">>
IsDigit(c) == \E i \in 1..10 : DigitChars[i] = c
DigitVal(c) == (CHOOSE i \in 1..10 : DigitChars[i] = c) - 1

RECURSIVE LStrip(_)
LStrip(x) ==
    IF x # <<>> /\ Head(x) \in Whitespace THEN LStrip(Tail(x)) ELSE x

RECURSIVE RStrip(_)
RStrip(x) ==
    IF x # <<>> /\ x[Len(x)] \in Whitespace
    THEN RStrip(SubSeq(x, 1, Len(x) - 1))
    ELSE x

\* str.strip()
Strip(x) == RStrip(LStrip(x))

RECURSIVE NatToStr(_)
NatToStr(k) ==
    IF k < 10 THEN <<DigitChars[k + 1]>>
    ELSE NatToStr(k \div 10) \o <<DigitChars[(k % 10) + 1]>>

\* str(int)
IntToStr(k) == IF k < 0 THEN <<"-">> \o NatToStr(0 - k) ELSE NatToStr(k)

\* str(float) of a float that is no whole number; the model's floats are
\* multiples of one half
HalfToStr(h) ==
    LET a == IF h < 0 THEN 0 - h ELSE h
    IN  (IF h < 0 THEN <<"-">> ELSE <<>>) \o NatToStr(a \div 2) \o <<".", "5">>

\* sep.join(parts)
RECURSIVE Join(_, _)
Join(parts, sep) ==
    IF parts = <<>> THEN <<>>
    ELSE IF Len(parts) = 1 THEN parts[1]
    ELSE parts[1] \o sep \o Join(Tail(parts), sep)

\* str.split(sep) for a one-character sep: always at least one part
RECURSIVE Split(_, _)
Split(x, sep) ==
    IF \A i \in 1..Len(x) : x[i] # sep THEN <<x>>
    ELSE LET i == CHOOSE j \in 1..Len(x) :
                      x[j] = sep /\ \A k \in 1..(j - 1) : x[k] # sep
         IN  <<SubSeq(x, 1, i - 1)>> \o Split(SubSeq(x, i + 1, Len(x)), sep)

-----------------------------------------------------------------------------
(* _cell_to_str *)

_cell_to_str(value) ==
    IF value.t = "none" THEN <<>>
    ELSE IF value.t = "bool"
    THEN (IF value.n = 1 THEN <<"T", "R", "U", "E">>
          ELSE <<"F", "A", "L", "S", "E">>)
    ELSE IF value.t = "date" THEN value.s
    ELSE IF value.t = "float" /\ value.n % 2 = 0 THEN IntToStr(value.n \div 2)
    ELSE IF value.t = "float" THEN Strip(HalfToStr(value.n))
    ELSE IF value.t = "int" THEN Strip(IntToStr(value.n \div 2))
    ELSE Strip(value.s)

-----------------------------------------------------------------------------
(* _try_to_float *)

NoFloat == [ok |-> FALSE, h |-> 0]
SomeFloat(h) == [ok |-> TRUE, h |-> h]

\* digitpart ::= digit (["_"] digit)*
RECURSIVE IsDigitPart(_)
IsDigitPart(x) ==
    /\ x # <<>>
    /\ IsDigit(Head(x))
    /\ \/ Len(x) = 1
       \/ IsDigitPart(Tail(x))
       \/ Len(x) >= 3 /\ x[2] = "_" /\ IsDigitPart(SubSeq(x, 3, Len(x)))

RECURSIVE DigitPartVal(_, _)
DigitPartVal(x, acc) ==
    IF x = <<>> THEN acc
    ELSE IF Head(x) = "_" THEN DigitPartVal(Tail(x), acc)
    ELSE DigitPartVal(Tail(x), 10 * acc + DigitVal(Head(x)))

\* a fraction part the halves can hold: zeros, or a 5 and then zeros
IsHalfFraction(x) ==
    /\ IsDigitPart(x)
    /\ \A i \in 1..Len(x) : x[i] \in {"0", "_"} \/ (i = 1 /\ x[i] = "5")

\* float(s) on an unsigned literal, in halves.  Python's grammar is
\*   [digitpart] "." digitpart | digitpart ["."], then an optional exponent,
\* or inf / nan; exponents, inf and nan need the letters e, i, n, which no
\* text of this model holds.
UnsignedFloat(x) ==
    LET dots == {i \in 1..Len(x) : x[i] = "."}
    IN  IF dots = {} THEN
            (IF IsDigitPart(x) THEN SomeFloat(2 * DigitPartVal(x, 0)) ELSE NoFloat)
        ELSE LET d == CHOOSE i \in dots : \A j \in dots : i <= j
                 ip == SubSeq(x, 1, d - 1)
                 fp == SubSeq(x, d + 1, Len(x))
             IN  IF /\ (ip = <<>> \/ IsDigitPart(ip))
                    /\ (fp = <<>> \/ IsHalfFraction(fp))
                    /\ ~(ip = <<>> /\ fp = <<>>)
                 THEN SomeFloat(2 * DigitPartVal(ip, 0)
                                + (IF fp # <<>> /\ fp[1] = "5" THEN 1 ELSE 0))
                 ELSE NoFloat

\* float(s): ValueError is NoFloat
ParseFloat(x) ==
    IF x # <<>> /\ Head(x) \in {"+", "-"}
    THEN LET u == UnsignedFloat(Tail(x))
         IN  IF u.ok /\ Head(x) = "-" THEN SomeFloat(0 - u.h) ELSE u
    ELSE UnsignedFloat(x)

\* the bug of converting numbers only, and no text
try_to_float_numbers_only(value) ==
    IF value.t \in {"int", "float"} THEN SomeFloat(value.n) ELSE NoFloat

_try_to_float(value) ==
    IF value.t = "none" THEN NoFloat
    ELSE IF value.t \in {"int", "float"} THEN SomeFloat(value.n)
    ELSE IF value.t = "str"
    THEN (IF Strip(value.s) = <<>> THEN NoFloat ELSE ParseFloat(Strip(value.s)))
    ELSE NoFloat

-----------------------------------------------------------------------------
(* _accumulate *)

\* [x.strip() for x in prev_s.split(";") if x.strip() != ""], as a set
SeenParts(prev_s) ==
    LET parts == Split(prev_s, ";")
    IN  {Strip(parts[i]) : i \in {j \in 1..Len(parts) : Strip(parts[j]) # <<>>}}

\* int(s) if float(s).is_integer() else s
SumValue(h) == IF h % 2 = 0 THEN IntV(h \div 2) ELSE FloatV(h)

_accumulate(prev, cur) ==
    LET p == _try_to_float(prev)
        c == _try_to_float(cur)
        prev_s == _cell_to_str(prev)
        cur_s == _cell_to_str(cur)
    IN  IF p.ok /\ c.ok THEN SumValue(p.h + c.h)
        ELSE IF prev_s = <<>> THEN StrV(cur_s)
        ELSE IF cur_s = <<>> THEN StrV(prev_s)
        ELSE IF cur_s \in SeenParts(prev_s) THEN StrV(prev_s)
        ELSE StrV(prev_s \o <<";">> \o cur_s)

-----------------------------------------------------------------------------
(* Worksheets.  A worksheet is [cells, merged]: cells[row][col] is the value *)
(* stored in the cell (None when the cell is empty), merged is the set of    *)
(* merged ranges [min_row, min_col, max_row, max_col].                       *)

max_row(sheet) == Len(sheet.cells)
max_column(sheet) == Len(sheet.cells[1])

\* ws.cell(row=row, column=col).value
CellValue(sheet, row, col) == sheet.cells[row][col]

\* ws.cell(row=row, column=col).value = v; a column past max_column makes the
\* sheet one column wider, its other cells empty
SetCellValue(sheet, row, col, v) ==
    LET wide == IF col <= max_column(sheet) THEN sheet.cells
                ELSE [i \in 1..max_row(sheet) |-> Append(sheet.cells[i], None)]
    IN  [sheet EXCEPT !.cells = [wide EXCEPT ![row][col] = v]]

InRange(rg, row, col) ==
    /\ rg.min_row <= row /\ row <= rg.max_row
    /\ rg.min_col <= col /\ col <= rg.max_col

\* a cell of a merged range that is not its top-left cell (openpyxl's MergedCell)
IsMergedCell(sheet, row, col) ==
    \E rg \in sheet.merged :
        InRange(rg, row, col) /\ <<row, col>> # <<rg.min_row, rg.min_col>>

\* the one character of the positional header name ("column" and the index)
Lie == "Lie"

\* the column's name in the header row: blank header cells get a positional name
HeaderName(sheet, header_row, c) ==
    LET name == _cell_to_str(CellValue(sheet, header_row, c))
    IN  IF name = <<>> THEN <<Lie>> \o NatToStr(c) ELSE name

\* name -> index of the first column of that name
_get_header_map(sheet, header_row) ==
    LET cols == 1..max_column(sheet)
        names == {HeaderName(sheet, header_row, c) : c \in cols}
    IN  [name \in names |->
            CHOOSE c \in cols :
                /\ HeaderName(sheet, header_row, c) = name
                /\ \A d \in cols :
                       HeaderName(sheet, header_row, d) = name => c <= d]

-----------------------------------------------------------------------------
(* _MergedValueResolver *)

\* the bug of mapping a covered coordinate to itself
MergedValueResolver_lookup_self(sheet) ==
    LET covered == {rc \in (1..max_row(sheet)) \X (1..max_column(sheet)) :
                       \E rg \in sheet.merged : InRange(rg, rc[1], rc[2])}
    IN  [rc \in covered |-> rc]

\* __init__: every coordinate of every merged range -> the range's top-left
MergedValueResolver_lookup(sheet) ==
    LET covered == {rc \in (1..max_row(sheet)) \X (1..max_column(sheet)) :
                       \E rg \in sheet.merged : InRange(rg, rc[1], rc[2])}
    IN  [rc \in covered |->
            LET rg == CHOOSE g \in sheet.merged : InRange(g, rc[1], rc[2])
            IN  <<rg.min_row, rg.min_col>>]

\* get
MergedValueResolver_get(sheet, row, col) ==
    LET lookup == MergedValueResolver_lookup(sheet)
    IN  IF <<row, col>> \notin DOMAIN lookup THEN CellValue(sheet, row, col)
        ELSE CellValue(sheet, lookup[<<row, col>>][1], lookup[<<row, col>>][2])

-----------------------------------------------------------------------------
(* _build_key *)

KeyParts(sheet, row, key_col_indexes) ==
    [i \in 1..Len(key_col_indexes) |->
        _cell_to_str(MergedValueResolver_get(sheet, row, key_col_indexes[i]))]

\* the bug of joining what is left of a row with a blank key column
build_key_skipping_blanks(sheet, row, key_col_indexes) ==
    LET parts == KeyParts(sheet, row, key_col_indexes)
    IN  Join(SelectSeq(parts, LAMBDA x : x # <<>>), <<"_">>)

_build_key(sheet, row, key_col_indexes) ==
    LET parts == KeyParts(sheet, row, key_col_indexes)
    IN  IF \E i \in 1..Len(parts) : parts[i] = <<>> THEN <<>>
        ELSE Join(parts, <<"_">>)

-----------------------------------------------------------------------------
(* dict *)

EmptyDict == <<>>
DictGet(d, k) == IF k \in DOMAIN d THEN d[k] ELSE None
DictSet(d, k, v) == [x \in (DOMAIN d) \cup {k} |-> IF x = k THEN v ELSE d[x]]

\* [c for c in names if c not in header_map]
MissingFrom(names, header_map) ==
    SelectSeq(names, LAMBDA c : c \notin DOMAIN header_map)

NoError == [kind |-> "none", op |-> "none", names |-> <<>>]
Error(kind, op, names) == [kind |-> kind, op |-> op, names |-> names]

NoOutput == [saved |-> FALSE, ws |-> [cells |-> <<>>, merged |-> {}]]

-----------------------------------------------------------------------------
(* build_source_mapping *)

\* the bug of letting the last row of a key win
build_source_mapping_row_last_wins(m, sheet, row, cfg, key_col_indexes, value_col_index) ==
    LET key == _build_key(sheet, row, key_col_indexes)
        value == MergedValueResolver_get(sheet, row, value_col_index)
    IN  IF key = <<>> THEN m
        ELSE IF value = None \/ _cell_to_str(value) = <<>> THEN m
        ELSE IF ~cfg.accumulate THEN DictSet(m, key, value)
        ELSE IF DictGet(m, key) = None THEN DictSet(m, key, value)
        ELSE DictSet(m, key, _accumulate(DictGet(m, key), value))

\* one pass of the loop over the data rows
build_source_mapping_row(m, sheet, row, cfg, key_col_indexes, value_col_index) ==
    LET key == _build_key(sheet, row, key_col_indexes)
        value == MergedValueResolver_get(sheet, row, value_col_index)
        prev == DictGet(m, key)
    IN  IF key = <<>> THEN m
        ELSE IF value = None \/ _cell_to_str(value) = <<>> THEN m
        ELSE IF ~cfg.accumulate
        THEN (IF key \notin DOMAIN m THEN DictSet(m, key, value) ELSE m)
        ELSE IF prev = None THEN DictSet(m, key, value)
        ELSE DictSet(m, key, _accumulate(prev, value))

Fail(e) ==
    /\ pc' = "error"
    /\ err' = e

\* load_workbook, wb[sheet_name], the header map and the missing-column check
Start ==
    /\ pc = "start"
    /\ IF srcCfg.sheet_name # srcFile.name
       THEN /\ Fail(Error("KeyError", "build", <<srcCfg.sheet_name>>))
            /\ UNCHANGED <<mapping, r, keyCols, valueCol>>
       ELSE LET header_map == _get_header_map(srcFile.ws, srcCfg.header_row)
                missing == MissingFrom(Append(srcCfg.key_columns, srcCfg.value_column),
                                       header_map)
            IN  IF missing # <<>>
                THEN /\ Fail(Error("ValueError", "build", missing))
                     /\ UNCHANGED <<mapping, r, keyCols, valueCol>>
                ELSE /\ pc' = "build"
                     /\ keyCols' = [i \in 1..Len(srcCfg.key_columns) |->
                                       header_map[srcCfg.key_columns[i]]]
                     /\ valueCol' = header_map[srcCfg.value_column]
                     /\ mapping' = EmptyDict
                     /\ r' = srcCfg.header_row + 1
                     /\ UNCHANGED err
    /\ UNCHANGED <<srcFile, tgtFile, srcCfg, tgtCfg, ws, writeCol, matched, total,
                   outFile>>

BuildRow ==
    /\ pc = "build"
    /\ r <= max_row(srcFile.ws)
    /\ mapping' = build_source_mapping_row(mapping, srcFile.ws, r, srcCfg, keyCols,
                                           valueCol)
    /\ r' = r + 1
    /\ UNCHANGED <<pc, srcFile, tgtFile, srcCfg, tgtCfg, ws, keyCols, valueCol,
                   writeCol, matched, total, outFile, err>>

-----------------------------------------------------------------------------
(* apply_mapping_to_target *)

\* the one character of the default header's two-character prefix ("matched")
PiPei == "PiPei"

\* output_header if output_header and output_header.strip() else f"..._{value_column}"
OutputHeader(output_header, value_column) ==
    IF output_header # <<>> /\ Strip(output_header) # <<>> THEN output_header
    ELSE <<PiPei, "_">> \o value_column

\* the names a failed lookup of the key columns reports: header_map[c] raises
\* KeyError at the first key column that is missing
MissingKeyReport(key_columns, header_map) ==
    <<Head(MissingFrom(key_columns, header_map))>>

\* the bug of saving as soon as the loop has begun
ReadyToSaveAnyRow(row, sheet) == TRUE

\* wb.save comes after the loop over the data rows
ReadyToSave(row, sheet) == row > max_row(sheet)

\* build_source_mapping has returned; load_workbook, wb[sheet_name], the
\* header map, the destination column and the key columns
ApplyStart ==
    /\ pc = "build"
    /\ r > max_row(srcFile.ws)
    /\ IF tgtCfg.sheet_name # tgtFile.name
       THEN /\ Fail(Error("KeyError", "apply", <<tgtCfg.sheet_name>>))
            /\ UNCHANGED <<ws, r, keyCols, writeCol, matched, total>>
       ELSE LET loaded == tgtFile.ws
                header_map == _get_header_map(loaded, tgtCfg.header_row)
                named == tgtCfg.write_to_column # <<>>
                write_col_index ==
                    IF named THEN header_map[tgtCfg.write_to_column]
                    ELSE max_column(loaded) + 1
                withHeader ==
                    IF named THEN loaded
                    ELSE SetCellValue(loaded, tgtCfg.header_row, write_col_index,
                                      StrV(OutputHeader(<<>>, srcCfg.value_column)))
            IN  IF named /\ tgtCfg.write_to_column \notin DOMAIN header_map
                THEN /\ Fail(Error("KeyError", "apply", <<tgtCfg.write_to_column>>))
                     /\ UNCHANGED <<ws, r, keyCols, writeCol, matched, total>>
                ELSE IF MissingFrom(tgtCfg.key_columns, header_map) # <<>>
                THEN /\ Fail(Error("KeyError", "apply",
                                   MissingKeyReport(tgtCfg.key_columns, header_map)))
                     /\ ws' = withHeader
                     /\ writeCol' = write_col_index
                     /\ UNCHANGED <<r, keyCols, matched, total>>
                ELSE /\ pc' = "apply"
                     /\ ws' = withHeader
                     /\ writeCol' = write_col_index
                     /\ keyCols' = [i \in 1..Len(tgtCfg.key_columns) |->
                                       header_map[tgtCfg.key_columns[i]]]
                     /\ matched' = 0
                     /\ total' = 0
                     /\ r' = tgtCfg.header_row + 1
                     /\ UNCHANGED err
    /\ UNCHANGED <<srcFile, tgtFile, srcCfg, tgtCfg, mapping, valueCol, outFile>>

\* one pass of the loop over the data rows.  Assigning to the value of a cell
\* that lies inside a merged range and is not its top-left cell depends on the
\* openpyxl release: a MergedCell's value is read-only (AttributeError), where
\* older releases keep an ordinary cell there and store the value.
ApplyRow ==
    /\ pc = "apply"
    /\ r <= max_row(ws)
    /\ LET key == _build_key(ws, r, keyCols)
           v == DictGet(mapping, key)
       IN  IF key = <<>>
           THEN /\ r' = r + 1
                /\ UNCHANGED <<pc, ws, matched, total, err>>
           ELSE IF v = None
           THEN /\ r' = r + 1
                /\ total' = total + 1
                /\ UNCHANGED <<pc, ws, matched, err>>
           ELSE \E readonly \in IF IsMergedCell(ws, r, writeCol)
                                THEN {TRUE, FALSE} ELSE {FALSE} :
                   IF readonly
                   THEN /\ Fail(Error("AttributeError", "apply", <<>>))
                        /\ total' = total + 1
                        /\ UNCHANGED <<ws, r, matched>>
                   ELSE /\ ws' = SetCellValue(ws, r, writeCol, v)
                        /\ total' = total + 1
                        /\ matched' = matched + 1
                        /\ r' = r + 1
                        /\ UNCHANGED <<pc, err>>
    /\ UNCHANGED <<srcFile, tgtFile, srcCfg, tgtCfg, mapping, keyCols, valueCol,
                   writeCol, outFile>>

\* the loop is over: wb.save(output_path) and the return
ApplyFinish ==
    /\ pc = "apply"
    /\ ReadyToSave(r, ws)
    /\ outFile' = [saved |-> TRUE, ws |-> ws]
    /\ pc' = "done"
    /\ UNCHANGED <<srcFile, tgtFile, srcCfg, tgtCfg, mapping, ws, r, keyCols,
                   valueCol, writeCol, matched, total, err>>

Next == Start \/ BuildRow \/ ApplyStart \/ ApplyRow \/ ApplyFinish

-----------------------------------------------------------------------------
(* Inputs: the two workbooks and the two configurations of a run *)

MaxRows == 2      \* data rows of a table whose rows vary
MaxLen == 2       \* characters of a text that varies

DefaultHeaderRow == 1

SheetName == <<"S">>
NX == <<"X">>
NY == <<"Y">>
NZ == <<"Z">>
NW == <<"W">>
NQ == <<"Q">>
HX == StrV(NX)
HY == StrV(NY)
HZ == StrV(NZ)
HW == StrV(NW)
TxtA == StrV(<<"A">>)
TxtB == StrV(<<"B">>)
TxtC == StrV(<<"C">>)
Blanks == StrV(<<" ">>)
PaddedX == StrV(<<" ", "x">>)

Sheet(header, rows, merged) == [cells |-> <<header>> \o rows, merged |-> merged]
File(sheet) == [name |-> SheetName, ws |-> sheet]

SourceConfig(sheet_name, key_columns, value_column, accumulate) ==
    [sheet_name |-> sheet_name, key_columns |-> key_columns,
     value_column |-> value_column, accumulate |-> accumulate,
     header_row |-> DefaultHeaderRow]

TargetConfig(sheet_name, key_columns, write_to_column) ==
    [sheet_name |-> sheet_name, key_columns |-> key_columns,
     write_to_column |-> write_to_column, header_row |-> DefaultHeaderRow]

\* tables of 1..n data rows, every row drawn from rowSet
Tables(rowSet, n) == UNION {[1..k -> rowSet] : k \in 1..n}

\* no merged range, or one that runs down a column of cols over two or more
\* data rows of a table of n data rows
ColumnMerges(cols, n) ==
    {{}} \cup
    {{[min_row |-> a, min_col |-> c, max_row |-> b, max_col |-> c]} :
        <<a, b, c>> \in {x \in (2..(n + 1)) \X (2..(n + 1)) \X cols : x[1] < x[2]}}

\* a small source and a small target that match
PlainSource ==
    File(Sheet(<<HX, HY, HZ>>,
               << <<TxtA, IntV(1), IntV(5)>>,
                  <<None, IntV(1), IntV(7)>> >>, {}))
PlainSourceConfig == SourceConfig(SheetName, <<NX, NY>>, NZ, FALSE)
PlainTarget == File(Sheet(<<HX, HY>>, << <<TxtA, IntV(1)>> >>, {}))
PlainTargetConfig == TargetConfig(SheetName, <<NX, NY>>, <<>>)

Fresh ==
    /\ pc = "start"
    /\ mapping = EmptyDict
    /\ ws = NoOutput.ws
    /\ r = 0
    /\ keyCols = <<>>
    /\ valueCol = 0
    /\ writeCol = 0
    /\ matched = 0
    /\ total = 0
    /\ outFile = NoOutput
    /\ err = NoError

Given(sf, sc, tf, tc) ==
    /\ srcFile = sf
    /\ srcCfg = sc
    /\ tgtFile = tf
    /\ tgtCfg = tc
    /\ Fresh

\* runs whose source table varies: two key columns X, Y and the value column Z;
\* the tables without merged ranges are built with and without accumulation
BuildRows == {None, TxtA, TxtB} \X {Blanks, IntV(1)} \X {None, IntV(5), PaddedX}
BuildRuns ==
    \E merged \in ColumnMerges({1, 3}, MaxRows) :
    \E rows \in Tables(BuildRows, MaxRows) :
    \E acc \in BOOLEAN :
        /\ \A rg \in merged : rg.max_row <= Len(rows) + 1
        /\ acc => merged = {}
        /\ Given(File(Sheet(<<HX, HY, HZ>>, rows, merged)),
                 SourceConfig(SheetName, <<NX, NY>>, NZ, acc),
                 PlainTarget, PlainTargetConfig)

\* runs whose target table varies: key columns X, Y and a column W; the
\* destination is a new column, W, the key column X, or a column that is missing
ApplyRows == {None, TxtA, TxtB} \X {Blanks, IntV(1)} \X {IntV(7)}
ApplyRuns ==
    \E merged \in ColumnMerges({1, 3}, MaxRows) :
    \E rows \in Tables(ApplyRows, MaxRows) :
    \E dest \in {<<>>, NW, NX, NQ} :
        /\ \A rg \in merged : rg.max_row <= Len(rows) + 1
        /\ Given(PlainSource, PlainSourceConfig,
                 File(Sheet(<<HX, HY, HW>>, rows, merged)),
                 TargetConfig(SheetName, <<NX, NY>>, dest))

\* runs that fail before the scan: a sheet the workbook does not hold, a key
\* column the target does not hold
FailingRuns ==
    \/ Given(PlainSource, SourceConfig(<<"N">>, <<NX, NY>>, NZ, FALSE),
             PlainTarget, PlainTargetConfig)
    \/ Given(PlainSource, PlainSourceConfig,
             PlainTarget, TargetConfig(<<"N">>, <<NX, NY>>, <<>>))
    \/ Given(PlainSource, PlainSourceConfig,
             PlainTarget, TargetConfig(SheetName, <<NX, NZ>>, <<>>))

\* source rows (A,1,10), (A,2,20), (B,1,30) and target keys (A,1), (A,2),
\* (B,1), (C,9)
ExampleSource ==
    File(Sheet(<<HX, HY, HZ>>,
               << <<TxtA, IntV(1), IntV(10)>>,
                  <<TxtA, IntV(2), IntV(20)>>,
                  <<TxtB, IntV(1), IntV(30)>> >>, {}))
ExampleTarget ==
    File(Sheet(<<HX, HY>>,
               << <<TxtA, IntV(1)>>, <<TxtA, IntV(2)>>,
                  <<TxtB, IntV(1)>>, <<TxtC, IntV(9)>> >>, {}))
ExampleRun ==
    Given(ExampleSource, SourceConfig(SheetName, <<NX, NY>>, NZ, FALSE),
          ExampleTarget, TargetConfig(SheetName, <<NX, NY>>, <<>>))

\* runs whose source table has merged ranges of every shape: a key column X and
\* the value column Z, MaxRows data rows, one or two ranges that do not overlap
\* (a worksheet's merged ranges never do)
Rectangles(rows, cols) ==
    {[min_row |-> x[1], min_col |-> x[3], max_row |-> x[2], max_col |-> x[4]] :
        x \in {y \in (1..rows) \X (1..rows) \X (1..cols) \X (1..cols) :
                  y[1] <= y[2] /\ y[3] <= y[4] /\ (y[1] < y[2] \/ y[3] < y[4])}}
Overlap(a, b) ==
    /\ a.min_row <= b.max_row /\ b.min_row <= a.max_row
    /\ a.min_col <= b.max_col /\ b.min_col <= a.max_col
MergeRows == {None, TxtA} \X {None, IntV(5)}
MergeRuns ==
    \E a \in Rectangles(MaxRows + 1, 2) :
    \E b \in Rectangles(MaxRows + 1, 2) :
    \E rows \in [1..MaxRows -> MergeRows] :
        /\ a = b \/ ~Overlap(a, b)
        /\ Given(File(Sheet(<<HX, HZ>>, rows, {a, b})),
                 SourceConfig(SheetName, <<NX>>, NZ, FALSE),
                 File(Sheet(<<HX>>, << <<TxtA>> >>, {})),
                 TargetConfig(SheetName, <<NX>>, <<>>))

Init == BuildRuns \/ ApplyRuns \/ MergeRuns \/ FailingRuns \/ ExampleRun

Spec == Init /\ [][Next]_vars

\* runs whose source values vary: one key column, every row of key A, one or
\* two rows that accumulate and one row that does not
Alphabet == {"A", "B", "1", ";", " ", "_"}
Texts(n) == UNION {[1..k -> Alphabet] : k \in 0..n}
AccValues ==
    {None, BoolV(TRUE), IntV(2), IntV(3), FloatV(5), FloatV(4),
     DateV(<<"2", "-", "1">>)} \cup {StrV(x) : x \in Texts(MaxLen)}
AccRun(values, acc) ==
    Given(File(Sheet(<<HX, HZ>>, [i \in 1..Len(values) |-> <<TxtA, values[i]>>], {})),
          SourceConfig(SheetName, <<NX>>, NZ, acc),
          File(Sheet(<<HX>>, << <<TxtA>> >>, {})),
          TargetConfig(SheetName, <<NX>>, <<>>))
AccRuns ==
    \E v \in AccValues :
        \/ \E w \in AccValues : AccRun(<<v, w>>, TRUE)
        \/ \E acc \in BOOLEAN : AccRun(<<v>>, acc)

InitAcc == AccRuns

SpecAcc == InitAcc /\ [][Next]_vars

\* runs whose key texts vary: one source row and one target row, two key columns
KeyAlphabet == {"A", "_"}
KeyTexts == {StrV(x) : x \in UNION {[1..k -> KeyAlphabet] : k \in 1..MaxLen}}
KeyRuns ==
    \E x \in KeyTexts \X KeyTexts \X KeyTexts \X KeyTexts :
        Given(File(Sheet(<<HX, HY, HZ>>, << <<x[1], x[2], IntV(5)>> >>, {})),
              SourceConfig(SheetName, <<NX, NY>>, NZ, FALSE),
              File(Sheet(<<HX, HY>>, << <<x[3], x[4]>> >>, {})),
              TargetConfig(SheetName, <<NX, NY>>, <<>>))

InitKey == KeyRuns

SpecKey == InitKey /\ [][Next]_vars

\* runs whose headers vary: one to three columns, named X, Y, Z or blank
Headers == UNION {[1..k -> {HX, HY, HZ, None}] : k \in 1..3}
HeaderRuns ==
    \E h \in Headers :
        \/ \E keys \in {<<NX>>, <<NX, NY>>} :
               Given(File(Sheet(h, << [i \in 1..Len(h) |-> TxtA] >>, {})),
                     SourceConfig(SheetName, keys, NZ, FALSE),
                     PlainTarget, PlainTargetConfig)
        \/ \E keys \in {<<NX>>, <<NX, NY>>, <<NY, NZ>>} : \E dest \in {<<>>, NQ} :
               Given(PlainSource, PlainSourceConfig,
                     File(Sheet(h, << [i \in 1..Len(h) |-> TxtA] >>, {})),
                     TargetConfig(SheetName, keys, dest))

InitHeader == HeaderRuns

SpecHeader == InitHeader /\ [][Next]_vars

-----------------------------------------------------------------------------
(* What the claims speak of, said over the tables on disk *)

DataRows(sheet, header_row) == (header_row + 1)..max_row(sheet)

\* the merged ranges of the sheet that hold the coordinate
RangesAt(sheet, row, col) == {rg \in sheet.merged : InRange(rg, row, col)}

\* the columns the configuration's names stand for
ColumnsOf(sheet, header_row, names) ==
    [i \in 1..Len(names) |-> _get_header_map(sheet, header_row)[names[i]]]

\* the normalized texts of a row's key columns
RowKeyTexts(sheet, cfg, row) ==
    LET cols == ColumnsOf(sheet, cfg.header_row, cfg.key_columns)
    IN  [i \in 1..Len(cols) |->
            _cell_to_str(MergedValueResolver_get(sheet, row, cols[i]))]

HasBlankKey(sheet, cfg, row) ==
    \E i \in 1..Len(cfg.key_columns) : RowKeyTexts(sheet, cfg, row)[i] = <<>>

RowKey(sheet, cfg, row) == Join(RowKeyTexts(sheet, cfg, row), <<"_">>)

\* the resolved value of a source row's value column
SourceValue(row) ==
    MergedValueResolver_get(srcFile.ws, row,
        _get_header_map(srcFile.ws, srcCfg.header_row)[srcCfg.value_column])

IsEmptyValue(v) == v = None \/ _cell_to_str(v) = <<>>

Least(S) == CHOOSE x \in S : \A y \in S : x <= y

\* build_source_mapping is in its loop; past the last row, the mapping is the
\* one it returns, and nothing after changes it
Building == pc = "build"
Built == pc = "build" /\ r > max_row(srcFile.ws)

\* the source rows the loop has passed
PassedSourceRows == (srcCfg.header_row + 1)..(r - 1)

-----------------------------------------------------------------------------
(* C1 *)

\* the tables on disk never change, so they are looked at when the run starts;
\* the target sheet in memory changes with every write
SheetsRead ==
    IF pc = "start" THEN {srcFile.ws, tgtFile.ws}
    ELSE IF pc \in {"apply", "done"} THEN {ws}
    ELSE {}

\* C1: in every sheet the run reads and at every coordinate, a cell inside a
\* merged range whose own value is null resolves to the value of that range's
\* top-left cell, and a cell outside every merged range resolves to its own
\* value.
C1_MergedCellResolution ==
    \A sheet \in SheetsRead :
        \A row \in 1..max_row(sheet) : \A col \in 1..max_column(sheet) :
            /\ \A rg \in RangesAt(sheet, row, col) :
                   CellValue(sheet, row, col) = None =>
                       MergedValueResolver_get(sheet, row, col)
                           = CellValue(sheet, rg.min_row, rg.min_col)
            /\ RangesAt(sheet, row, col) = {} =>
                   MergedValueResolver_get(sheet, row, col) = CellValue(sheet, row, col)

\* a finished run whose source has an empty key cell below the top-left cell of
\* its merged range, a text there, and the key of that text in the mapping
C1_Witness ==
    /\ pc = "done"
    /\ \E rg \in srcFile.ws.merged : \E row \in DataRows(srcFile.ws, srcCfg.header_row) :
        /\ rg.min_col = 1 /\ rg.max_col = 1 /\ rg.min_row < row /\ row <= rg.max_row
        /\ CellValue(srcFile.ws, row, 1) = None
        /\ CellValue(srcFile.ws, rg.min_row, 1) = TxtA
        /\ MergedValueResolver_get(srcFile.ws, row, 1) = TxtA
        /\ ~IsEmptyValue(SourceValue(row))
        /\ <<"A">> \in DOMAIN mapping

-----------------------------------------------------------------------------
(* C2 *)

\* the keys of the data rows of the target table as it was read from disk: the
\* key is empty when a key column is blank
TargetKeys ==
    LET cols == ColumnsOf(tgtFile.ws, tgtCfg.header_row, tgtCfg.key_columns)
    IN  [row \in DataRows(tgtFile.ws, tgtCfg.header_row) |->
            LET texts == [i \in 1..Len(cols) |->
                             _cell_to_str(MergedValueResolver_get(tgtFile.ws, row, cols[i]))]
            IN  IF \E i \in 1..Len(cols) : texts[i] = <<>> THEN <<>>
                ELSE Join(texts, <<"_">>)]

\* the destination cell of a row before the run; a new column has none
DestinationBefore(row) ==
    IF writeCol <= max_column(tgtFile.ws) THEN CellValue(tgtFile.ws, row, writeCol)
    ELSE None

\* the counts and the destination column after the scan, against the keys of
\* the target table
AppliedAsStated ==
    LET key == TargetKeys
        valid == {row \in DOMAIN key : key[row] # <<>>}
        hit == {row \in valid : key[row] \in DOMAIN mapping}
    IN  /\ total = Cardinality(valid)
        /\ matched = Cardinality(hit)
        /\ \A row \in hit : CellValue(ws, row, writeCol) = mapping[key[row]]
        /\ \A row \in DOMAIN key \ hit :
               CellValue(ws, row, writeCol) = DestinationBefore(row)

\* C2 as stated: after the scan, the total is the number of target rows whose
\* key is valid, the matched count the number of those whose key is in the
\* mapping, every such row holds the mapped value in the destination column and
\* every other row's destination cell is as it was; the example gives 3 of 4
\* and the values 10, 20, 30.
C2_AppliedMapping ==
    /\ pc = "done" => AppliedAsStated
    /\ (pc = "done" /\ srcFile = ExampleSource /\ tgtFile = ExampleTarget) =>
           /\ matched = 3 /\ total = 4
           /\ CellValue(ws, 2, writeCol) = IntV(10)
           /\ CellValue(ws, 3, writeCol) = IntV(20)
           /\ CellValue(ws, 4, writeCol) = IntV(30)
           /\ CellValue(ws, 5, writeCol) = None

\* the same, for the runs whose destination column is none of the key columns
AppliedMappingOutsideKeyColumns ==
    (pc = "done" /\ \A i \in 1..Len(keyCols) : keyCols[i] # writeCol) => AppliedAsStated

-----------------------------------------------------------------------------
(* C3 *)

\* C3: a source row with a key column that resolves to empty text leaves the
\* mapping as it was, and a target row with such a key column leaves the total
\* (and the matched count and the sheet) as it was.
C3_BlankKeyRowsExcluded ==
    [][/\ (pc = "build" /\ pc' = "build" /\ HasBlankKey(srcFile.ws, srcCfg, r))
            => mapping' = mapping
       /\ (pc = "apply" /\ r' = r + 1 /\ HasBlankKey(tgtFile.ws, tgtCfg, r))
            => (total' = total /\ matched' = matched /\ ws' = ws)]_vars

\* a finished run that passed a blank-key row in the source and one in the
\* target, next to rows that counted
C3_Witness ==
    /\ pc = "done"
    /\ \E row \in DataRows(srcFile.ws, srcCfg.header_row) :
           HasBlankKey(srcFile.ws, srcCfg, row) /\ ~IsEmptyValue(SourceValue(row))
    /\ \E row \in DataRows(tgtFile.ws, tgtCfg.header_row) :
           HasBlankKey(tgtFile.ws, tgtCfg, row)
    /\ mapping # EmptyDict
    /\ total >= 1

-----------------------------------------------------------------------------
(* C4 *)

\* the keys and the values of the passed source rows: the key is empty when a
\* key column is blank
SourceKeys ==
    LET cols == ColumnsOf(srcFile.ws, srcCfg.header_row, srcCfg.key_columns)
    IN  [row \in PassedSourceRows |->
            LET texts == [i \in 1..Len(cols) |->
                             _cell_to_str(MergedValueResolver_get(srcFile.ws, row, cols[i]))]
            IN  IF \E i \in 1..Len(cols) : texts[i] = <<>> THEN <<>>
                ELSE Join(texts, <<"_">>)]
SourceValues ==
    LET col == _get_header_map(srcFile.ws, srcCfg.header_row)[srcCfg.value_column]
    IN  [row \in PassedSourceRows |-> MergedValueResolver_get(srcFile.ws, row, col)]

\* C4 as stated: without accumulation the value of every key of the mapping is
\* the value of the first row of that key.
C4_FirstOccurrenceWins ==
    (Built /\ ~srcCfg.accumulate) =>
        LET key == SourceKeys
            val == SourceValues
        IN  \A k \in DOMAIN mapping :
                mapping[k] = val[Least({row \in DOMAIN key : key[row] = k})]

\* C4 as amended: without accumulation, after every row of the scan, the
\* mapping holds exactly the keys that some passed row brought a non-empty
\* value for, each with the value of the first such row; a row whose value is
\* empty is no occurrence.
C4_FirstValuedOccurrenceWins ==
    (Building /\ ~srcCfg.accumulate) =>
        LET key == SourceKeys
            val == SourceValues
            valued == {row \in DOMAIN key : key[row] # <<>> /\ ~IsEmptyValue(val[row])}
        IN  /\ DOMAIN mapping = {key[row] : row \in valued}
            /\ \A k \in DOMAIN mapping :
                   mapping[k] = val[Least({row \in valued : key[row] = k})]

\* the mapping is built, a key has two rows with different values, and holds
\* the first
C4_Witness ==
    /\ Built /\ ~srcCfg.accumulate
    /\ LET key == SourceKeys
           val == SourceValues
       IN  \E i \in DOMAIN key : \E j \in DOMAIN key :
            /\ i < j
            /\ key[i] # <<>> /\ key[i] = key[j]
            /\ ~IsEmptyValue(val[i]) /\ ~IsEmptyValue(val[j])
            /\ val[i] # val[j]
            /\ mapping[key[i]] = val[i]

-----------------------------------------------------------------------------
(* C8 *)

\* C8: an output exists only once the run is done, without an error, past the
\* last data row, and it is the sheet as the scan of every row left it; a run
\* that failed has written nothing.
C8_AllOrNothing ==
    /\ outFile.saved =>
        /\ pc = "done"
        /\ err = NoError
        /\ r = max_row(tgtFile.ws) + 1
        /\ outFile.ws = ws
        /\ total = Cardinality({row \in DataRows(tgtFile.ws, tgtCfg.header_row) :
                                   ~HasBlankKey(tgtFile.ws, tgtCfg, row)})
    /\ pc = "error" => (err # NoError /\ outFile = NoOutput)
    /\ pc = "done" => outFile.saved

\* a run that failed in the middle of the scan, a value already written to the
\* sheet in memory, and no output
C8_Witness ==
    /\ pc = "error"
    /\ err.kind = "AttributeError"
    /\ matched >= 1
    /\ ws # tgtFile.ws
    /\ outFile = NoOutput

-----------------------------------------------------------------------------
(* C5, C6, C9: the value of the one key of the runs of SpecAcc *)

\* the cells of the value column, top to bottom
ValueCells ==
    [i \in 1..(max_row(srcFile.ws) - srcCfg.header_row) |->
        CellValue(srcFile.ws, srcCfg.header_row + i, max_column(srcFile.ws))]

\* the values of a sequence, each once, in the order they are first seen
RECURSIVE FirstSeen(_)
FirstSeen(seq) ==
    IF seq = <<>> THEN <<>>
    ELSE LET front == FirstSeen(SubSeq(seq, 1, Len(seq) - 1))
             last == seq[Len(seq)]
         IN  IF \E i \in 1..Len(front) : front[i] = last THEN front
             ELSE Append(front, last)

IsText(v) == v.t = "str" /\ Strip(v.s) # <<>>

\* C5 as stated: with accumulation, the texts contributed to a key end as the
\* distinct texts, each once, in first-seen order, joined by ';' (so a text
\* twice gives what the text once gives, and A then B gives A;B).
C5_TextAccumulationIsSetUnion ==
    (Built /\ srcCfg.accumulate /\ \A i \in DOMAIN ValueCells : IsText(ValueCells[i])) =>
        /\ <<"A">> \in DOMAIN mapping
        /\ _cell_to_str(mapping[<<"A">>])
               = Join(FirstSeen([i \in DOMAIN ValueCells |-> Strip(ValueCells[i].s)]),
                      <<";">>)

\* the same, for the texts that hold no ';' and do not read as a number
C5_ForPlainTexts ==
    (/\ Built /\ srcCfg.accumulate
     /\ \A i \in DOMAIN ValueCells :
            /\ IsText(ValueCells[i])
            /\ \A j \in 1..Len(ValueCells[i].s) : ValueCells[i].s[j] \notin {";", "1"}) =>
        /\ <<"A">> \in DOMAIN mapping
        /\ _cell_to_str(mapping[<<"A">>])
               = Join(FirstSeen([i \in DOMAIN ValueCells |-> Strip(ValueCells[i].s)]),
                      <<";">>)

\* the trimmed, non-empty pieces of a text between its ';'
PartsOf(x) ==
    {Strip(SubSeq(x, i, j)) :
        <<i, j>> \in {y \in (1..Len(x)) \X (1..Len(x)) :
                        /\ y[1] <= y[2]
                        /\ \A k \in y[1]..y[2] : x[k] # ";"
                        /\ (y[1] = 1 \/ x[y[1] - 1] = ";")
                        /\ (y[2] = Len(x) \/ x[y[2] + 1] = ";")}} \ {<<>>}

\* a number with the value of h halves: an integer when whole
Sum(h) == IF h % 2 = 0 THEN [t |-> "int", n |-> h, s |-> <<>>]
          ELSE [t |-> "float", n |-> h, s |-> <<>>]

\* two contributions, each a number or a text, have been accumulated
Accumulated(P, C) ==
    /\ Built /\ srcCfg.accumulate
    /\ ValueCells = <<P, C>>
    /\ IsNumber(P) \/ IsText(P)
    /\ IsNumber(C) \/ IsText(C)

UnionOfTexts(P, C) ==
    /\ mapping[<<"A">>].t = "str"
    /\ PartsOf(mapping[<<"A">>].s)
           = PartsOf(_cell_to_str(P)) \cup PartsOf(_cell_to_str(C))

C9_MappingValuesNormalized ==
    Built =>
        /\ \A k \in DOMAIN mapping :
               \/ IsNumber(mapping[k])
               \/ /\ mapping[k].t = "str"
                  /\ mapping[k].s # <<>>
                  /\ Strip(mapping[k].s) = mapping[k].s
        /\ ValueCells = <<BoolV(TRUE)>> => mapping[<<"A">>] = StrV(<<"T", "R", "U", "E">>)

-----------------------------------------------------------------------------
(* C7 *)

\* the names that are no header of the sheet
Absent(names, sheet, header_row) ==
    SelectSeq(names, LAMBDA c : c \notin DOMAIN _get_header_map(sheet, header_row))

\* C7 as stated: the builder that misses columns fails naming all of them, and
\* so does the applicator that misses key columns.
C7_AllMissingColumnsReported ==
    /\ (/\ pc # "start"
        /\ srcCfg.sheet_name = srcFile.name
        /\ Absent(Append(srcCfg.key_columns, srcCfg.value_column),
                  srcFile.ws, srcCfg.header_row) # <<>>) =>
           /\ pc = "error"
           /\ err.op = "build"
           /\ err.names = Absent(Append(srcCfg.key_columns, srcCfg.value_column),
                                 srcFile.ws, srcCfg.header_row)
    /\ (/\ pc \in {"apply", "done"} \/ (pc = "error" /\ err.op = "apply")
        /\ tgtCfg.sheet_name = tgtFile.name
        /\ Absent(<<tgtCfg.write_to_column>>, tgtFile.ws, tgtCfg.header_row) = <<>>
               \/ tgtCfg.write_to_column = <<>>
        /\ Absent(tgtCfg.key_columns, tgtFile.ws, tgtCfg.header_row) # <<>>) =>
           /\ pc = "error"
           /\ err.names = Absent(tgtCfg.key_columns, tgtFile.ws, tgtCfg.header_row)

\* the builder's half of C7
C7_BuilderReportsAll ==
    (/\ pc # "start"
     /\ srcCfg.sheet_name = srcFile.name
     /\ Absent(Append(srcCfg.key_columns, srcCfg.value_column),
               srcFile.ws, srcCfg.header_row) # <<>>) =>
        /\ pc = "error"
        /\ err.op = "build"
        /\ err.names = Absent(Append(srcCfg.key_columns, srcCfg.value_column),
                              srcFile.ws, srcCfg.header_row)

-----------------------------------------------------------------------------
(* C10 *)

\* C10 as stated: the keys of two rows are equal only if the rows' key texts
\* are equal column by column, so a matched target row has the key texts of
\* the source row.
C10_KeysDoNotCollide ==
    LET source == RowKeyTexts(srcFile.ws, srcCfg, srcCfg.header_row + 1)
        target == RowKeyTexts(tgtFile.ws, tgtCfg, tgtCfg.header_row + 1)
    IN  /\ (pc = "done" /\ matched = 1) => source = target
        /\ (pc = "done" /\ Join(source, <<"_">>) = Join(target, <<"_">>)) => source = target

=============================================================================
